---- MODULE Spec2Model ----
(***************************************************************************)
(* Model of src/wastewater_simulation.py: class                            *)
(* WastewaterTreatmentSimulation (constructor, pipeline builder,           *)
(* run_simulation, evaluate_compliance, the seven treatment unit functions *)
(* and _adjust_pH).                                                        *)
(*                                                                         *)
(* Concentrations are Python floats (IEEE-754 binary64).  They are         *)
(* modelled exactly: a float is a record [s, m, e] denoting                *)
(* (-1)^s * m * 2^e, where m is a natural number of exactly 53 bits (or 0) *)
(* kept as a little-endian sequence of base-2^15 limbs, and every          *)
(* arithmetic operation rounds to nearest, ties to even, as the hardware   *)
(* does.  Infinities, NaN and subnormals are outside every value the model *)
(* computes and are not represented.                                       *)
(***************************************************************************)
EXTENDS Integers, Sequences, FiniteSets, TLC

----------------------------------------------------------------------------
(* Natural numbers of arbitrary size: little-endian limbs, no high zeros.  *)

LimbBits == 15
Base == 32768

RECURSIVE Pow2(_)
Pow2(k) == IF k = 0 THEN 1 ELSE 2 * Pow2(k - 1)

RECURSIVE BNorm(_)
BNorm(a) ==
    IF a = <<>> THEN <<>>
    ELSE IF a[Len(a)] = 0 THEN BNorm(SubSeq(a, 1, Len(a) - 1))
    ELSE a

RECURSIVE BFromInt(_)
BFromInt(n) == IF n = 0 THEN <<>> ELSE <<n % Base>> \o BFromInt(n \div Base)

RECURSIVE BAddC(_, _, _)
BAddC(a, b, c) ==
    IF a = <<>> /\ b = <<>> THEN (IF c = 0 THEN <<>> ELSE <<c>>)
    ELSE LET x == IF a = <<>> THEN 0 ELSE Head(a)
             y == IF b = <<>> THEN 0 ELSE Head(b)
             t == x + y + c
         IN  <<t % Base>> \o BAddC(IF a = <<>> THEN <<>> ELSE Tail(a),
                                   IF b = <<>> THEN <<>> ELSE Tail(b),
                                   t \div Base)

BAdd(a, b) == BAddC(a, b, 0)

\* a - b - c for a >= b + c, not normalised
RECURSIVE BSubC(_, _, _)
BSubC(a, b, c) ==
    IF a = <<>> THEN <<>>
    ELSE LET y == IF b = <<>> THEN 0 ELSE Head(b)
             t == Head(a) - y - c
         IN  <<IF t < 0 THEN t + Base ELSE t>>
             \o BSubC(Tail(a), IF b = <<>> THEN <<>> ELSE Tail(b),
                      IF t < 0 THEN 1 ELSE 0)

BSub(a, b) == BNorm(BSubC(a, b, 0))

\* a * k + c for 0 <= k < Base
RECURSIVE BMulSmall(_, _, _)
BMulSmall(a, k, c) ==
    IF a = <<>> THEN (IF c = 0 THEN <<>> ELSE <<c>>)
    ELSE LET t == Head(a) * k + c
         IN  <<t % Base>> \o BMulSmall(Tail(a), k, t \div Base)

RECURSIVE BMul(_, _)
BMul(a, b) ==
    IF a = <<>> \/ b = <<>> THEN <<>>
    ELSE BNorm(BAdd(BMulSmall(a, Head(b), 0), <<0>> \o BMul(a, Tail(b))))

\* -1, 0, 1 as a < b, a = b, a > b (both normalised)
RECURSIVE BCmpFrom(_, _, _)
BCmpFrom(a, b, i) ==
    IF i = 0 THEN 0
    ELSE IF a[i] < b[i] THEN -1
    ELSE IF a[i] > b[i] THEN 1
    ELSE BCmpFrom(a, b, i - 1)

BCmp(a, b) ==
    IF Len(a) < Len(b) THEN -1
    ELSE IF Len(a) > Len(b) THEN 1
    ELSE BCmpFrom(a, b, Len(a))

RECURSIVE IntBitLen(_)
IntBitLen(n) == IF n = 0 THEN 0 ELSE 1 + IntBitLen(n \div 2)

BBitLen(a) ==
    IF a = <<>> THEN 0 ELSE LimbBits * (Len(a) - 1) + IntBitLen(a[Len(a)])

BShl(a, k) ==
    IF a = <<>> THEN <<>>
    ELSE [i \in 1..(k \div LimbBits) |-> 0]
         \o BMulSmall(a, Pow2(k % LimbBits), 0)

\* floor(a / d) for 0 < d <= Base, scanning from the high limb
RECURSIVE BDivSmallFrom(_, _, _, _)
BDivSmallFrom(a, d, i, r) ==
    IF i = 0 THEN <<>>
    ELSE LET t == r * Base + a[i]
         IN  BDivSmallFrom(a, d, i - 1, t % d) \o <<t \div d>>

BDivSmall(a, d) == BNorm(BDivSmallFrom(a, d, Len(a), 0))

RECURSIVE BModSmallFrom(_, _, _, _)
BModSmallFrom(a, d, i, r) ==
    IF i = 0 THEN r ELSE BModSmallFrom(a, d, i - 1, (r * Base + a[i]) % d)

BModSmall(a, d) == BModSmallFrom(a, d, Len(a), 0)

BShr(a, k) ==
    LET w == k \div LimbBits
    IN  IF w >= Len(a) THEN <<>>
        ELSE BDivSmall(SubSeq(a, w + 1, Len(a)), Pow2(k % LimbBits))

BIsOdd(a) == a # <<>> /\ Head(a) % 2 = 1

----------------------------------------------------------------------------
(* IEEE-754 binary64 values and the operations the program uses on them.   *)

MantBits == 53

FZero == [s |-> 0, m |-> <<>>, e |-> 0]

\* q, or q / 2 one exponent up when rounding carried into a 54th bit
FPack(s, q, e) ==
    IF BBitLen(q) > MantBits
    THEN [s |-> s, m |-> BShr(q, 1), e |-> e + 1]
    ELSE [s |-> s, m |-> q, e |-> e]

\* q with the dropped bits compared to one half (c): up when above, or when
\* equal and q is odd
FRoundUp(s, q, e, c) ==
    FPack(s, IF c = 1 \/ (c = 0 /\ BIsOdd(q)) THEN BAdd(q, <<1>>) ELSE q, e)

\* m cut by d > 0 bits to q = floor(m / 2^d)
FRoundCut(s, m, e, d, q) ==
    FRoundUp(s, q, e + d, BCmp(BSub(m, BShl(q, d)), BShl(<<1>>, d - 1)))

FRoundLen(s, m, e, len) ==
    IF len = 0 THEN FZero
    ELSE IF len <= MantBits
    THEN [s |-> s, m |-> BShl(m, MantBits - len), e |-> e - (MantBits - len)]
    ELSE FRoundCut(s, m, e, len - MantBits, BShr(m, len - MantBits))

\* the double nearest to (-1)^s * m * 2^e, ties to even
FRound(s, m, e) == FRoundLen(s, m, e, BBitLen(m))

\* scaled / d to 71 binary places, the last one set when the division left
\* a remainder
DecQuotient(scaled, d) ==
    FRound(0, BAddC(BShl(BDivSmall(scaled, d), 1), <<>>,
                    IF BModSmall(scaled, d) = 0 THEN 0 ELSE 1), -71)

\* the float written as the decimal literal n / 10^k (n >= 0, k <= 4)
Dec(n, k) ==
    DecQuotient(BShl(BFromInt(n), 70),
                IF k = 0 THEN 1 ELSE IF k = 1 THEN 10 ELSE IF k = 2 THEN 100
                ELSE IF k = 3 THEN 1000 ELSE 10000)

FNeg(x) == IF x.m = <<>> THEN x ELSE [x EXCEPT !.s = 1 - x.s]

FMul(x, y) ==
    IF x.m = <<>> \/ y.m = <<>> THEN FZero
    ELSE FRound((x.s + y.s) % 2, BMul(x.m, y.m), x.e + y.e)

\* -1, 0, 1 as |x| < |y|, |x| = |y|, |x| > |y|
FCmpMag(x, y) ==
    IF x.m = <<>> /\ y.m = <<>> THEN 0
    ELSE IF x.m = <<>> THEN -1
    ELSE IF y.m = <<>> THEN 1
    ELSE IF x.e < y.e THEN -1
    ELSE IF x.e > y.e THEN 1
    ELSE BCmp(x.m, y.m)

FCmp(x, y) ==
    IF x.s = 0 /\ y.s = 0 THEN FCmpMag(x, y)
    ELSE IF x.s = 1 /\ y.s = 1 THEN FCmpMag(y, x)
    ELSE IF x.m = <<>> /\ y.m = <<>> THEN 0
    ELSE IF x.s = 1 THEN -1 ELSE 1

FLe(x, y) == FCmp(x, y) <= 0
FLt(x, y) == FCmp(x, y) < 0

\* (-1)^sx * mx * 2^e + (-1)^sy * my * 2^e, c comparing mx to my
FAddAligned(sx, mx, sy, my, e, c) ==
    IF sx = sy THEN FRound(sx, BAdd(mx, my), e)
    ELSE IF c = 0 THEN FZero
    ELSE FRound(IF c = 1 THEN sx ELSE sy,
                IF c = 1 THEN BSub(mx, my) ELSE BSub(my, mx), e)

FAddAt(x, y, e) ==
    FAddAligned(x.s, BShl(x.m, x.e - e), y.s, BShl(y.m, y.e - e), e,
                BCmp(BShl(x.m, x.e - e), BShl(y.m, y.e - e)))

FAdd(x, y) ==
    IF x.m = <<>> THEN y
    ELSE IF y.m = <<>> THEN x
    ELSE FAddAt(x, y, IF x.e < y.e THEN x.e ELSE y.e)

FSub(x, y) == FAdd(x, FNeg(y))

\* Python's min(a, b) and max(a, b): the first argument unless the second
\* is strictly smaller (larger)
FMin(a, b) == IF FLt(b, a) THEN b ELSE a
FMax(a, b) == IF FLt(a, b) THEN b ELSE a

----------------------------------------------------------------------------
(* Bounds of the model.                                                    *)

MaxPlan     == 3    \* plan selectors 0..MaxPlan are tried by the constructor
MaxRuns     == 2    \* executions of run_simulation per instance
MaxEvals    == 2    \* direct calls of evaluate_compliance per instance
MaxPrints   == 1    \* calls of print_results per instance
MaxPHSample == 28   \* pH inputs 0.0, 0.5, ..., MaxPHSample / 2
MaxOffset   == 1    \* inputs at limit + k / 1000, k in -MaxOffset..MaxOffset

PlanSelectors == 0..MaxPlan

----------------------------------------------------------------------------
(* Python values.  A dict is a function on its key set; ints are written   *)
(* as the floats they convert to (exactly) in mixed arithmetic.            *)

FOne == Dec(1, 0)

\* dict.copy(): a new dict with the same items
DictCopy(d) == d

\* a number, or a tuple of numbers, as stored in effluent_limits
Number(x)   == [is_tuple |-> FALSE, items |-> <<x>>]
Tuple(a, b) == [is_tuple |-> TRUE,  items |-> <<a, b>>]

VARIABLES
    tabulate,               \* whether the module global tabulate is bound:
                            \* it is when the file runs as __main__ and is
                            \* not when the file is imported
    plan,                   \* self.plan
    raised,                 \* exception raised by the latest call on the
                            \* instance, its construction included, or "none"
    raw_wastewater,         \* self.raw_wastewater
    effluent_limits,        \* self.effluent_limits
    treatment_units,        \* self.treatment_units
    concentration_history,  \* self.concentration_history
    compliance,             \* <<>>, or <<d>> for d the dict returned by the
                            \* latest evaluate_compliance
    runs,                   \* executions of run_simulation so far
    evals,                  \* calls of evaluate_compliance so far
    prints,                 \* calls of print_results so far
    unit_called,            \* a direct call of a method: its name, or "none"
    unit_input,             \* the dict passed to it, as the caller sees it
    unit_output             \* what it returned

vars == <<tabulate, plan, raised, raw_wastewater, effluent_limits,
          treatment_units, concentration_history, compliance, runs, evals,
          prints, unit_called, unit_input, unit_output>>

objectVars == <<tabulate, plan, raised, raw_wastewater, effluent_limits,
                treatment_units, concentration_history, compliance,
                runs, evals, prints>>

----------------------------------------------------------------------------
(* __init__                                                                *)

RawWastewater(p) ==
    ("pH" :> Dec(75, 1)) @@
    ("TSS" :> IF p = 1 THEN Dec(476, 1) ELSE Dec(4757, 2)) @@
    ("TDS" :> Dec(669, 0)) @@
    ("COD" :> Dec(1552, 0)) @@
    ("BOD" :> IF p = 1 THEN Dec(1025, 0) ELSE Dec(536, 0)) @@
    ("Conductivity" :> Dec(12144, 1)) @@
    ("Turbidity" :> Dec(345, 0)) @@
    ("Alkalinity" :> Dec(1513, 1)) @@
    ("Total Nitrates" :> IF p = 1 THEN Dec(282, 1) ELSE Dec(268, 1)) @@
    ("Total Phosphates" :> Dec(966, 1)) @@
    ("Total Color" :> IF p = 1 THEN Dec(114233, 1) ELSE Dec(108521, 1)) @@
    ("Total Zinc" :> Dec(50, 1))

EffluentLimits ==
    ("TSS" :> Number(Dec(20, 0))) @@
    ("TDS" :> Number(Dec(500, 0))) @@
    ("COD" :> Number(Dec(150, 0))) @@
    ("BOD" :> Number(Dec(30, 0))) @@
    ("Conductivity" :> Number(Dec(1000, 0))) @@
    ("Turbidity" :> Number(Dec(5, 0))) @@
    ("Alkalinity" :> Tuple(Dec(50, 0), Dec(150, 0))) @@
    ("Total Nitrates" :> Number(Dec(10, 0))) @@
    ("Total Phosphates" :> Number(Dec(5, 0))) @@
    ("Total Color" :> Number(Dec(50, 0))) @@
    ("Total Zinc" :> Number(Dec(20, 1)))

\* the builder with its test on the plan inverted
_initialize_treatment_units_inverted(p) ==
    IF p # 1
    THEN << [name |-> "Fine Screen",          function |-> "fine_screen"],
            [name |-> "Plain Sedimentation",  function |-> "plain_sedimentation"],
            [name |-> "Electrocoagulation",   function |-> "electrocoagulation"],
            [name |-> "Rapid Sand Filter",    function |-> "rapid_sand_filter"] >>
    ELSE << [name |-> "Fine Screen",          function |-> "fine_screen"],
            [name |-> "Coagulation Tank",     function |-> "coagulation_tank"],
            [name |-> "Flocculation Chamber", function |-> "flocculation_chamber"],
            [name |-> "Sedimentation",        function |-> "sedimentation"],
            [name |-> "Electrocoagulation",   function |-> "electrocoagulation"],
            [name |-> "Rapid Sand Filter",    function |-> "rapid_sand_filter"] >>

_initialize_treatment_units(p) ==
    IF p = 1
    THEN << [name |-> "Fine Screen",          function |-> "fine_screen"],
            [name |-> "Plain Sedimentation",  function |-> "plain_sedimentation"],
            [name |-> "Electrocoagulation",   function |-> "electrocoagulation"],
            [name |-> "Rapid Sand Filter",    function |-> "rapid_sand_filter"] >>
    ELSE << [name |-> "Fine Screen",          function |-> "fine_screen"],
            [name |-> "Coagulation Tank",     function |-> "coagulation_tank"],
            [name |-> "Flocculation Chamber", function |-> "flocculation_chamber"],
            [name |-> "Sedimentation",        function |-> "sedimentation"],
            [name |-> "Electrocoagulation",   function |-> "electrocoagulation"],
            [name |-> "Rapid Sand Filter",    function |-> "rapid_sand_filter"] >>

----------------------------------------------------------------------------
(* Treatment unit functions                                                *)

fine_screen_removals ==
    ("BOD" :> Dec(25, 3)) @@ ("COD" :> Dec(0, 1)) @@ ("TSS" :> Dec(10, 2)) @@
    ("TDS" :> Dec(0, 1)) @@ ("Total Color" :> Dec(0, 1)) @@
    ("Turbidity" :> Dec(25, 3)) @@ ("Conductivity" :> Dec(25, 3)) @@
    ("Alkalinity" :> Dec(25, 3)) @@ ("Total Nitrates" :> Dec(25, 3)) @@
    ("Total Phosphates" :> Dec(25, 3)) @@ ("Total Zinc" :> Dec(5, 2))

plain_sedimentation_removals ==
    ("BOD" :> Dec(325, 3)) @@ ("COD" :> Dec(25, 2)) @@ ("TSS" :> Dec(60, 2)) @@
    ("TDS" :> Dec(0, 1)) @@ ("Total Color" :> Dec(15, 2)) @@
    ("Turbidity" :> Dec(40, 2)) @@ ("Conductivity" :> Dec(25, 3)) @@
    ("Alkalinity" :> Dec(25, 3)) @@ ("Total Nitrates" :> Dec(25, 3)) @@
    ("Total Phosphates" :> Dec(15, 2)) @@ ("Total Zinc" :> Dec(30, 2))

coagulation_tank_removals ==
    ("BOD" :> Dec(20, 2)) @@ ("COD" :> Dec(30, 2)) @@ ("TSS" :> Dec(55, 2)) @@
    ("TDS" :> Dec(75, 3)) @@ ("Total Color" :> Dec(50, 2)) @@
    ("Turbidity" :> Dec(65, 2)) @@ ("Conductivity" :> Dec(10, 2)) @@
    ("Alkalinity" :> Dec(20, 2)) @@ ("Total Nitrates" :> Dec(20, 2)) @@
    ("Total Phosphates" :> Dec(80, 2)) @@ ("Total Zinc" :> Dec(60, 2))

flocculation_chamber_removals ==
    ("BOD" :> Dec(75, 3)) @@ ("COD" :> Dec(15, 2)) @@ ("TSS" :> Dec(30, 2)) @@
    ("TDS" :> Dec(25, 3)) @@ ("Total Color" :> Dec(20, 2)) @@
    ("Turbidity" :> Dec(45, 2)) @@ ("Conductivity" :> Dec(25, 3)) @@
    ("Alkalinity" :> Dec(25, 3)) @@ ("Total Nitrates" :> Dec(25, 3)) @@
    ("Total Phosphates" :> Dec(15, 2)) @@ ("Total Zinc" :> Dec(20, 2))

sedimentation_removals ==
    ("BOD" :> Dec(50, 2)) @@ ("COD" :> Dec(35, 2)) @@ ("TSS" :> Dec(70, 2)) @@
    ("TDS" :> Dec(0, 1)) @@ ("Total Color" :> Dec(30, 2)) @@
    ("Turbidity" :> Dec(55, 2)) @@ ("Conductivity" :> Dec(25, 3)) @@
    ("Alkalinity" :> Dec(25, 3)) @@ ("Total Nitrates" :> Dec(25, 3)) @@
    ("Total Phosphates" :> Dec(875, 3)) @@ ("Total Zinc" :> Dec(50, 2))

electrocoagulation_removals_plan1 ==
    ("BOD" :> Dec(725, 3)) @@ ("COD" :> Dec(725, 3)) @@ ("TSS" :> Dec(825, 3)) @@
    ("TDS" :> Dec(20, 2)) @@ ("Total Color" :> Dec(725, 3)) @@
    ("Turbidity" :> Dec(875, 3)) @@ ("Conductivity" :> Dec(20, 2)) @@
    ("Alkalinity" :> Dec(20, 2)) @@ ("Total Nitrates" :> Dec(30, 2)) @@
    ("Total Phosphates" :> Dec(80, 2)) @@ ("Total Zinc" :> Dec(85, 2))

electrocoagulation_removals_else ==
    ("BOD" :> Dec(75, 2)) @@ ("COD" :> Dec(725, 3)) @@ ("TSS" :> Dec(825, 3)) @@
    ("TDS" :> Dec(20, 2)) @@ ("Total Color" :> Dec(73, 2)) @@
    ("Turbidity" :> Dec(825, 3)) @@ ("Conductivity" :> Dec(20, 2)) @@
    ("Alkalinity" :> Dec(20, 2)) @@ ("Total Nitrates" :> Dec(30, 2)) @@
    ("Total Phosphates" :> Dec(80, 2)) @@ ("Total Zinc" :> Dec(85, 2))

rapid_sand_filter_removals ==
    ("BOD" :> Dec(20, 2)) @@ ("COD" :> Dec(10, 2)) @@ ("TSS" :> Dec(875, 3)) @@
    ("TDS" :> Dec(0, 1)) @@ ("Total Color" :> Dec(30, 2)) @@
    ("Turbidity" :> Dec(895, 3)) @@ ("Conductivity" :> Dec(25, 3)) @@
    ("Alkalinity" :> Dec(25, 3)) @@ ("Total Nitrates" :> Dec(25, 3)) @@
    ("Total Phosphates" :> Dec(30, 2)) @@ ("Total Zinc" :> Dec(20, 2))

\* new_concentrations[param] *= removal
RemoveKeepingRemoved(value, removal) == FMul(value, removal)

\* new_concentrations[param] *= (1 - removal)
Remove(value, removal) == FMul(value, FSub(FOne, removal))

\* the body without the copy: new_concentrations = concentrations, so the
\* writes reach the caller's dict
ApplyRemovalsInPlace(concentrations, removals) ==
    [arg |-> [p \in DOMAIN concentrations |->
                 IF p \in DOMAIN removals
                 THEN Remove(concentrations[p], removals[p])
                 ELSE concentrations[p]],
     ret |-> [p \in DOMAIN concentrations |->
                 IF p \in DOMAIN removals
                 THEN Remove(concentrations[p], removals[p])
                 ELSE concentrations[p]]]

\* The body shared by every unit function:
\*     new_concentrations = concentrations.copy()
\*     for param, removal in removals.items():
\*         new_concentrations[param] *= (1 - removal)
\* ret is the dict built; arg is the caller's dict as the call leaves it
\* (the writes go to the copy).  Every key of removals is a key of the
\* vectors the model passes, so the item lookup never fails.
ApplyRemovals(concentrations, removals) ==
    [arg |-> concentrations,
     ret |-> [p \in DOMAIN DictCopy(concentrations) |->
                 IF p \in DOMAIN removals
                 THEN Remove(concentrations[p], removals[p])
                 ELSE concentrations[p]]]

fine_screen(concentrations) ==
    ApplyRemovals(concentrations, fine_screen_removals)

plain_sedimentation(concentrations) ==
    ApplyRemovals(concentrations, plain_sedimentation_removals)

coagulation_tank(concentrations) ==
    ApplyRemovals(concentrations, coagulation_tank_removals)

flocculation_chamber(concentrations) ==
    ApplyRemovals(concentrations, flocculation_chamber_removals)

sedimentation(concentrations) ==
    ApplyRemovals(concentrations, sedimentation_removals)

\* the filter with the fine screen's removals
rapid_sand_filter_as_fine_screen(concentrations) ==
    ApplyRemovals(concentrations, fine_screen_removals)

rapid_sand_filter(concentrations) ==
    ApplyRemovals(concentrations, rapid_sand_filter_removals)

\* the adjustment without its cap at 7.0
_adjust_pH_uncapped(current_pH) ==
    IF FLt(current_pH, Dec(7, 0))
    THEN FMul(current_pH, Dec(11, 1))
    ELSE IF FLt(Dec(8, 0), current_pH)
    THEN FMax(FMul(current_pH, Dec(95, 2)), Dec(75, 1))
    ELSE current_pH

\* the adjustment with current_pH >= 8 for current_pH > 8
_adjust_pH_from_8(current_pH) ==
    IF FLt(current_pH, Dec(7, 0))
    THEN FMin(FMul(current_pH, Dec(11, 1)), Dec(70, 1))
    ELSE IF FLe(Dec(8, 0), current_pH)
    THEN FMax(FMul(current_pH, Dec(95, 2)), Dec(75, 1))
    ELSE current_pH

_adjust_pH(current_pH) ==
    IF FLt(current_pH, Dec(7, 0))
    THEN FMin(FMul(current_pH, Dec(11, 1)), Dec(70, 1))
    ELSE IF FLt(Dec(8, 0), current_pH)
    THEN FMax(FMul(current_pH, Dec(95, 2)), Dec(75, 1))
    ELSE current_pH

\* new_concentrations['pH'] = self._adjust_pH(concentrations['pH'])
AdjustPH(r) ==
    [arg |-> r.arg, ret |-> [r.ret EXCEPT !["pH"] = _adjust_pH(r.arg["pH"])]]

\* reads self.plan
electrocoagulation(concentrations) ==
    AdjustPH(ApplyRemovals(concentrations,
                           IF plan = 1 THEN electrocoagulation_removals_plan1
                           ELSE electrocoagulation_removals_else))

UnitFunctions ==
    {"fine_screen", "plain_sedimentation", "coagulation_tank",
     "flocculation_chamber", "sedimentation", "electrocoagulation",
     "rapid_sand_filter"}

\* unit['function'](concentrations), the bound method named f
CallFunction(f, concentrations) ==
    CASE f = "fine_screen"          -> fine_screen(concentrations)
      [] f = "plain_sedimentation"  -> plain_sedimentation(concentrations)
      [] f = "coagulation_tank"     -> coagulation_tank(concentrations)
      [] f = "flocculation_chamber" -> flocculation_chamber(concentrations)
      [] f = "sedimentation"        -> sedimentation(concentrations)
      [] f = "electrocoagulation"   -> electrocoagulation(concentrations)
      [] f = "rapid_sand_filter"    -> rapid_sand_filter(concentrations)

----------------------------------------------------------------------------
(* run_simulation and evaluate_compliance                                  *)

\* for unit in self.treatment_units: ... (the loop from its i-th iteration;
\* RunUnit is the body once unit['function'] has returned)
RECURSIVE RunUnits(_, _, _, _), RunUnit(_, _, _, _)
RunUnits(units, i, current_concentrations, history) ==
    IF i > Len(units) THEN history
    ELSE RunUnit(units, i,
                 CallFunction(units[i].function, current_concentrations).ret,
                 history)

RunUnit(units, i, current_concentrations, history) ==
    RunUnits(units, i + 1, current_concentrations,
             Append(history,
                    <<units[i].name, DictCopy(current_concentrations)>>))

\* current_concentrations = self.raw_wastewater.copy()
\* self.concentration_history = [('Raw Wastewater', current_concentrations.copy())]
RunFrom(current_concentrations, history) ==
    RunUnits(treatment_units, 1, current_concentrations,
             Append(history,
                    <<"Raw Wastewater", DictCopy(current_concentrations)>>))

\* run_simulation appending to the list it should replace
run_simulation_appending ==
    RunFrom(DictCopy(raw_wastewater), concentration_history)

\* the list run_simulation leaves in self.concentration_history
run_simulation == RunFrom(DictCopy(raw_wastewater), <<>>)

\* the loop of evaluate_compliance over final_effluent.items()
\* meets_limit with < for <=
MeetsLimitStrictly(value, limit) ==
    IF limit.is_tuple
    THEN FLt(limit.items[1], value) /\ FLt(value, limit.items[2])
    ELSE FLt(value, limit.items[1])

\* meets_limit for a value and its entry of effluent_limits
MeetsLimit(value, limit) ==
    IF limit.is_tuple
    THEN FLe(limit.items[1], value) /\ FLe(value, limit.items[2])
    ELSE FLe(value, limit.items[1])

Compliance(final_effluent, limits) ==
    [param \in {k \in DOMAIN final_effluent : k = "pH" \/ k \in DOMAIN limits}
        |-> IF param = "pH" THEN <<final_effluent[param], TRUE>>
            ELSE <<final_effluent[param],
                   MeetsLimit(final_effluent[param], limits[param])>>]

-----
(* The instance: construction and the calls made on it.                    *)

\* WastewaterTreatmentSimulation(plan = p); no statement of it raises
Construct(p) ==
    /\ plan = p
    /\ raised = "none"
    /\ raw_wastewater = RawWastewater(p)
    /\ effluent_limits = EffluentLimits
    /\ treatment_units = _initialize_treatment_units(p)
    /\ concentration_history = <<>>
    /\ compliance = <<>>
    /\ runs = 0
    /\ evals = 0
    /\ prints = 0

Init ==
    /\ tabulate \in BOOLEAN
    /\ \E p \in PlanSelectors : Construct(p)
    /\ unit_called = "none"
    /\ unit_input = raw_wastewater
    /\ unit_output = <<>>

\* sim.run_simulation()
RunSimulation ==
    /\ runs < MaxRuns
    /\ concentration_history' = run_simulation
    /\ runs' = runs + 1
    /\ raised' = "none"
    /\ UNCHANGED <<tabulate, plan, raw_wastewater, effluent_limits,
                   treatment_units, compliance, evals, prints,
                   unit_called, unit_input, unit_output>>

\* evaluate_compliance running the simulation whatever the history holds
EvaluateComplianceRunning ==
    /\ evals < MaxEvals
    /\ concentration_history' = run_simulation
    /\ runs' = runs + 1
    /\ compliance' =
           <<Compliance(concentration_history'[Len(concentration_history')][2],
                        effluent_limits)>>
    /\ evals' = evals + 1
    /\ raised' = "none"
    /\ UNCHANGED <<tabulate, plan, raw_wastewater, effluent_limits,
                   treatment_units, prints,
                   unit_called, unit_input, unit_output>>

\* sim.evaluate_compliance()
EvaluateCompliance ==
    /\ evals < MaxEvals
    /\ IF concentration_history = <<>>
       THEN concentration_history' = run_simulation /\ runs' = runs + 1
       ELSE UNCHANGED <<concentration_history, runs>>
    /\ compliance' =
           <<Compliance(concentration_history'[Len(concentration_history')][2],
                        effluent_limits)>>
    /\ evals' = evals + 1
    /\ raised' = "none"
    /\ UNCHANGED <<tabulate, plan, raw_wastewater, effluent_limits,
                   treatment_units, prints,
                   unit_called, unit_input, unit_output>>

\* sim.f(sim.raw_wastewater) for a unit function f: the caller passes the
\* instance's own dict
CallUnitOnRaw(f) ==
    \E r \in {CallFunction(f, raw_wastewater)} :
        /\ raw_wastewater' = r.arg
        /\ unit_called' = f
        /\ unit_input' = r.arg
        /\ unit_output' = r.ret
        /\ raised' = "none"
        /\ UNCHANGED <<tabulate, plan, effluent_limits, treatment_units,
                       concentration_history, compliance, runs, evals,
                       prints>>

\* what print_results raises before it reaches evaluate_compliance, given
\* the history it prints: stage[1][param] for every key of the raw vector
\* and every stage, then the call of tabulate
print_results_raises(history) ==
    IF \E i \in 1..Len(history) :
           \E param \in DOMAIN raw_wastewater : param \notin DOMAIN history[i][2]
    THEN "KeyError"
    ELSE IF ~tabulate THEN "NameError"
    ELSE "none"

\* sim.print_results(): the run if there is no history, the stage table,
\* then evaluate_compliance, which finds a history, and the compliance
\* table; what is printed is not kept
PrintResults ==
    /\ prints < MaxPrints
    /\ IF concentration_history = <<>>
       THEN concentration_history' = run_simulation /\ runs' = runs + 1
       ELSE UNCHANGED <<concentration_history, runs>>
    /\ raised' = print_results_raises(concentration_history')
    /\ IF raised' = "none"
       THEN /\ compliance' =
                   <<Compliance(
                       concentration_history'[Len(concentration_history')][2],
                       effluent_limits)>>
            /\ evals' = evals + 1
       ELSE UNCHANGED <<compliance, evals>>
    /\ prints' = prints + 1
    /\ UNCHANGED <<tabulate, plan, raw_wastewater, effluent_limits,
                   treatment_units, unit_called, unit_input, unit_output>>

Next ==
    \/ RunSimulation
    \/ EvaluateCompliance
    \/ PrintResults
    \/ \E f \in UnitFunctions : CallUnitOnRaw(f)

Spec == Init /\ [][Next]_vars

----------------------------------------------------------------------------
(* The unit functions, _adjust_pH and the compliance loop on inputs drawn  *)
(* from bounded sets of complete, non-negative concentration vectors: the  *)
(* vectors of the instance's own run, the raw vector with its pH or its    *)
(* alkalinity replaced, every limited parameter next to its limit, the     *)
(* zero vector, and the raw vector with one parameter more, which no       *)
(* removal table and no limit names.                                       *)

\* the value limit + k / 1000 for the limits, all of which are multiples
\* of 1 / 1000, written as Python would read the literal
LimitThousandths ==
    ("TSS" :> 20000) @@ ("TDS" :> 500000) @@ ("COD" :> 150000) @@
    ("BOD" :> 30000) @@ ("Conductivity" :> 1000000) @@ ("Turbidity" :> 5000) @@
    ("Total Nitrates" :> 10000) @@ ("Total Phosphates" :> 5000) @@
    ("Total Color" :> 50000) @@ ("Total Zinc" :> 2000)

PHSamples == {Dec(5 * i, 1) : i \in 0..MaxPHSample}

AlkalinitySamples ==
    {Dec(50000 + k, 3) : k \in -MaxOffset..MaxOffset}
    \cup {Dec(150000 + k, 3) : k \in -MaxOffset..MaxOffset}

\* every parameter with a scalar limit at its limit + k / 1000
NearLimits(base, k) ==
    [param \in DOMAIN base |->
        IF param \in DOMAIN LimitThousandths
        THEN Dec(LimitThousandths[param] + k, 3) ELSE base[param]]

TestVectors(history) ==
    {history[i][2] : i \in 1..Len(history)}
    \cup {[raw_wastewater EXCEPT !["pH"] = v] : v \in PHSamples}
    \cup {[raw_wastewater EXCEPT !["Alkalinity"] = v] : v \in AlkalinitySamples}
    \cup {NearLimits(raw_wastewater, k) : k \in -MaxOffset..MaxOffset}
    \cup {[param \in DOMAIN raw_wastewater |-> FZero]}
    \cup {raw_wastewater @@ ("Temperature" :> Dec(25, 0))}

InitUnits ==
    /\ tabulate = FALSE
    /\ \E p \in PlanSelectors : Construct(p)
    /\ unit_called = "none"
    /\ unit_input \in TestVectors(run_simulation)
    /\ unit_output = <<>>

\* sim.f(v) for a unit function f
ApplyUnit(f) ==
    \E r \in {CallFunction(f, unit_input)} :
        /\ unit_called' = f
        /\ unit_input' = r.arg
        /\ unit_output' = r.ret
        /\ UNCHANGED objectVars

\* sim._adjust_pH(v['pH'])
ApplyAdjustPH ==
    /\ unit_called' = "_adjust_pH"
    /\ unit_output' = _adjust_pH(unit_input["pH"])
    /\ UNCHANGED <<unit_input, objectVars>>

\* the compliance loop with v as the final effluent
ApplyCompliance ==
    /\ unit_called' = "evaluate_compliance"
    /\ unit_output' = Compliance(unit_input, effluent_limits)
    /\ UNCHANGED <<unit_input, objectVars>>

NextUnits ==
    \/ \E f \in UnitFunctions : ApplyUnit(f)
    \/ ApplyAdjustPH
    \/ ApplyCompliance

SpecUnits == InitUnits /\ [][NextUnits]_vars

----------------------------------------------------------------------------
(* Properties                                                              *)

StageNames(history) == [i \in 1..Len(history) |-> history[i][1]]

UnitNames(units) == [i \in 1..Len(units) |-> units[i].name]

FinalEffluent == concentration_history[Len(concentration_history)][2]

Plan1Pipeline ==
    <<"Fine Screen", "Plain Sedimentation", "Electrocoagulation",
      "Rapid Sand Filter">>

Plan2Pipeline ==
    <<"Fine Screen", "Coagulation Tank", "Flocculation Chamber",
      "Sedimentation", "Electrocoagulation", "Rapid Sand Filter">>

\* C1: a plan selector other than 1 or 2 makes the constructor fail with
\* InvalidPlan, and the instance has no pipeline and never gets a history.
C1_InvalidPlanRejected ==
    plan \notin {1, 2} =>
        /\ raised = "InvalidPlan"
        /\ treatment_units = <<>>
        /\ concentration_history = <<>>

\* C2: the pipeline is the plan's fixed list of stages, before, during and
\* after every run, and the stage names of a history are "Raw Wastewater"
\* followed by that list, each stage once and in that order.
C2_StageOrder ==
    /\ plan = 1 => UnitNames(treatment_units) = Plan1Pipeline
    /\ plan = 2 => UnitNames(treatment_units) = Plan2Pipeline
    /\ concentration_history # <<>> =>
        /\ plan = 1 => StageNames(concentration_history)
                          = <<"Raw Wastewater">> \o Plan1Pipeline
        /\ plan = 2 => StageNames(concentration_history)
                          = <<"Raw Wastewater">> \o Plan2Pipeline

C2_Witness ==
    /\ plan = 2
    /\ runs >= 2
    /\ StageNames(concentration_history) = <<"Raw Wastewater">> \o Plan2Pipeline

\* C3: once run_simulation or evaluate_compliance has been called, however
\* often, the history has len(pipeline) + 1 entries: 5 under plan 1 and 7
\* under plan 2.
C3_HistoryLength ==
    runs + evals >= 1 =>
        /\ Len(concentration_history) = Len(treatment_units) + 1
        /\ plan = 1 => Len(concentration_history) = 5
        /\ plan = 2 => Len(concentration_history) = 7

C3_Witness ==
    /\ runs >= 2
    /\ evals >= 1
    /\ plan = 2
    /\ Len(concentration_history) = 7

\* C4: the compliance loop reports, for a final vector, pH as (value, true)
\* whatever the value; nothing for a parameter without a limit; for a scalar
\* limit L (value, value <= L); for a range [lo, hi] (value, lo <= value <=
\* hi), so that alkalinity passes at exactly 50 and 150 and fails at 49.999
\* and 150.001.
C4_ComplianceRecord ==
    unit_called = "evaluate_compliance" =>
        /\ DOMAIN unit_output =
               {p \in DOMAIN unit_input : p = "pH" \/ p \in DOMAIN effluent_limits}
        /\ unit_output["pH"] = <<unit_input["pH"], TRUE>>
        /\ \A p \in DOMAIN unit_output \ {"pH"} :
               /\ unit_output[p][1] = unit_input[p]
               /\ unit_output[p][2] =
                      IF effluent_limits[p].is_tuple
                      THEN FLe(effluent_limits[p].items[1], unit_input[p])
                           /\ FLe(unit_input[p], effluent_limits[p].items[2])
                      ELSE FLe(unit_input[p], effluent_limits[p].items[1])
        /\ unit_input["Alkalinity"] \in {Dec(50, 0), Dec(150, 0)}
               => unit_output["Alkalinity"][2]
        /\ unit_input["Alkalinity"] \in {Dec(49999, 3), Dec(150001, 3)}
               => ~unit_output["Alkalinity"][2]

C4_Witness ==
    /\ unit_called = "evaluate_compliance"
    /\ unit_input["Alkalinity"] = Dec(150, 0)
    /\ unit_output["Alkalinity"] = <<Dec(150, 0), TRUE>>

\* C5: a call of evaluate_compliance, direct or made by print_results,
\* comes with a run of the simulation exactly when the history was empty;
\* with a history present it leaves the history as it is and returns the
\* record the previous call returned.
C5_LazyMemoized ==
    [][evals' = evals + 1 =>
          /\ runs' = (IF concentration_history = <<>> THEN runs + 1 ELSE runs)
          /\ concentration_history # <<>> =>
                 /\ concentration_history' = concentration_history
                 /\ compliance # <<>> => compliance' = compliance]_vars

C5_Witness ==
    /\ evals >= 2
    /\ runs = 1
    /\ compliance # <<>>
    /\ concentration_history # <<>>

\* 1025 x (1 - 0.025) x (1 - 0.325) x (1 - 0.725) x (1 - 0.20), the
\* factors applied in sequence in the program's arithmetic
C6_Bound ==
    FMul(FMul(FMul(FMul(Dec(1025, 0),
                        FSub(FOne, Dec(25, 3))),
                   FSub(FOne, Dec(325, 3))),
              FSub(FOne, Dec(725, 3))),
         FSub(FOne, Dec(20, 2)))

\* C6: under plan 1 the final BOD of a run is at most 1025 x (1 - 0.025) x
\* (1 - 0.325) x (1 - 0.725) x (1 - 0.20), and evaluate_compliance reports
\* that value for BOD, as PASS exactly if it is <= 30.
C6_FinalBOD ==
    (plan = 1 /\ concentration_history # <<>>) =>
        /\ raw_wastewater["BOD"] = Dec(1025, 0)
        /\ FLe(FinalEffluent["BOD"], C6_Bound)
        /\ compliance # <<>> =>
               /\ compliance[1]["BOD"][1] = FinalEffluent["BOD"]
               /\ compliance[1]["BOD"][2] = FLe(FinalEffluent["BOD"], Dec(30, 0))

C6_Witness ==
    /\ plan = 1
    /\ compliance # <<>>
    /\ FinalEffluent["BOD"] = C6_Bound
    /\ compliance[1]["BOD"][2] = FALSE

\* C7: a stage never raises a value and never makes it negative, except
\* that electrocoagulation may raise a pH below 7, to at most 7.0, and
\* lowers a pH only if it is above 8, to no less than 7.5.
C7_NoIncrease ==
    unit_called \in UnitFunctions =>
        \A p \in DOMAIN unit_input :
            /\ p \in DOMAIN unit_output
            /\ FLe(FZero, unit_output[p])
            /\ IF p = "pH" /\ unit_called = "electrocoagulation"
               THEN /\ FLt(unit_input[p], Dec(7, 0))
                           => FLe(unit_output[p], Dec(70, 1))
                    /\ ~FLt(unit_input[p], Dec(7, 0))
                           => FLe(unit_output[p], unit_input[p])
                    /\ FLt(Dec(8, 0), unit_input[p])
                           => FLe(Dec(75, 1), unit_output[p])
                    /\ ~FLt(Dec(8, 0), unit_input[p])
                           => FLe(unit_input[p], unit_output[p])
               ELSE FLe(unit_output[p], unit_input[p])

C7_Witness ==
    /\ unit_called = "electrocoagulation"
    /\ unit_input["pH"] = Dec(65, 1)
    /\ unit_output["pH"] = Dec(70, 1)
    /\ FLt(unit_output["BOD"], unit_input["BOD"])

\* the removal table of the stage of that name
Profile(name) ==
    CASE name = "Fine Screen"          -> fine_screen_removals
      [] name = "Plain Sedimentation"  -> plain_sedimentation_removals
      [] name = "Coagulation Tank"     -> coagulation_tank_removals
      [] name = "Flocculation Chamber" -> flocculation_chamber_removals
      [] name = "Sedimentation"        -> sedimentation_removals
      [] name = "Electrocoagulation"   ->
             IF plan = 1 THEN electrocoagulation_removals_plan1
             ELSE electrocoagulation_removals_else
      [] name = "Rapid Sand Filter"    -> rapid_sand_filter_removals

\* C8: every history entry after the raw one holds, for every parameter p
\* of the entry before it, in[p] * (1 - f), f the stage's removal fraction
\* for p or 0 if it has none, and holds no other parameter; every history
\* vector has all the parameters of the raw vector.
C8_StageTransform ==
    \A i \in 1..Len(concentration_history) :
        /\ DOMAIN concentration_history[i][2] = DOMAIN raw_wastewater
        /\ i > 1 =>
            \A p \in DOMAIN concentration_history[i - 1][2] :
                concentration_history[i][2][p] =
                    FMul(concentration_history[i - 1][2][p],
                         FSub(FOne,
                              IF p \in DOMAIN Profile(concentration_history[i][1])
                              THEN Profile(concentration_history[i][1])[p]
                              ELSE FZero))

C8_Witness ==
    /\ plan = 2
    /\ Len(concentration_history) = 7
    /\ concentration_history[6][1] = "Electrocoagulation"
    /\ concentration_history[6][2]["BOD"] =
           FMul(concentration_history[5][2]["BOD"], FSub(FOne, Dec(75, 2)))
    /\ concentration_history[6][2]["pH"] = concentration_history[5][2]["pH"]

\* min(v * 1.1, 7.0) if v < 7, max(v * 0.95, 7.5) if v > 8, else v
C9_Rule(v) ==
    IF FLt(v, Dec(7, 0)) THEN FMin(FMul(v, Dec(11, 1)), Dec(70, 1))
    ELSE IF FLt(Dec(8, 0), v) THEN FMax(FMul(v, Dec(95, 2)), Dec(75, 1))
    ELSE v

\* C9: electrocoagulation returns pH min(v * 1.1, 7.0) for an input pH
\* v < 7, max(v * 0.95, 7.5) for v > 8 and v otherwise; every other stage
\* returns the pH it was given.
C9_PHRule ==
    /\ unit_called = "electrocoagulation"
           => unit_output["pH"] = C9_Rule(unit_input["pH"])
    /\ unit_called \in UnitFunctions \ {"electrocoagulation"}
           => unit_output["pH"] = unit_input["pH"]
    /\ unit_called = "_adjust_pH" => unit_output = C9_Rule(unit_input["pH"])

C9_Witness ==
    /\ unit_called = "electrocoagulation"
    /\ unit_input["pH"] = Dec(85, 1)
    /\ unit_output["pH"] = FMul(Dec(85, 1), Dec(95, 2))

\* C10: no step changes the raw vector, the limit table or the pipeline; a
\* unit function called on the raw vector leaves it as it was; the raw
\* snapshot of a history is the raw vector; and a run on an instance that
\* has a history leaves a history equal to it.
C10_NoMutation ==
    [][/\ raw_wastewater' = raw_wastewater
       /\ effluent_limits' = effluent_limits
       /\ treatment_units' = treatment_units
       /\ unit_called' \in UnitFunctions => unit_input' = raw_wastewater
       /\ concentration_history' # <<>> =>
              concentration_history'[1] = <<"Raw Wastewater", raw_wastewater>>
       /\ concentration_history # <<>> =>
              concentration_history' = concentration_history]_vars

C10_Witness ==
    /\ runs >= 2
    /\ unit_called \in UnitFunctions
    /\ unit_input = raw_wastewater
    /\ unit_output # raw_wastewater
    /\ raw_wastewater = RawWastewater(plan)
    /\ concentration_history = run_simulation

====
